---- MODULE Spec2Model ----
\* Model of PostgresController (src/postgres_contoller.py): the lazy
\* connect / reconnect bookkeeping, the per-call transaction and cursor
\* scopes, and the paginated bulk insert.
\*
\* The psycopg2 connection object is modelled by what the controller can
\* observe of it and by what the server does with it:
\*   closed   the connection's `closed` attribute (0 open, 1 closed by
\*            close(), 2 found broken by a failed operation).  psycopg2 only
\*            updates it when an operation is attempted.
\*   sock     whether the server side of the connection is still there.
\*   intrans  a transaction is open on the connection.
\*   cursors  number of cursors opened on it and not yet closed.
\*   pending  rows inserted by the open transaction, not yet committed.
EXTENDS Integers, Sequences, FiniteSets, TLC

VARIABLES
    handles,           \* every connection object psycopg2.connect returned, in order
    conn,              \* self.conn: None or an index into handles
    is_reconnect,      \* self.is_reconnect
    reconnect_number,  \* self.reconnect_number
    table,             \* committed row count of the target table
    log,               \* lines written through logger.warning
    openAttempts,      \* number of psycopg2.connect calls made so far
    opsDone,           \* number of public operations that returned or raised
    lastCall,          \* what the most recent public operation did
    deleted,           \* __del__ has run
    pc,                \* per thread: position inside execute()
    tmp,               \* per thread: value loaded by `self.reconnect_number += 1`
    ret                \* per thread: handle returned by psycopg2.connect, not yet stored

vars == <<handles, conn, is_reconnect, reconnect_number, table, log,
          openAttempts, opsDone, lastCall, deleted, pc, tmp, ret>>

seqVars == <<handles, conn, is_reconnect, reconnect_number, table, log,
             openAttempts, opsDone, lastCall, deleted>>

thrVars == <<pc, tmp, ret>>

----------------------------------------------------------------------------
\* Bounds

MaxOps == 3

MaxOpens == 3

MaxRows == 120000

----------------------------------------------------------------------------
\* Program constants and input domains

None == 0

page_size == 50000

table_schema == "public"

TableNames == {"events"}

upper(name) == IF name = "events" THEN "EVENTS" ELSE name

RowCounts == {0, page_size, MaxRows}

\* A dataframe: whether its columns are those of the target table, and its rows.
DataFrames == [columns : {"match", "mismatch"}, nrows : RowCounts]

\* A statement: whether it returns a result set, and the rows it adds.
Queries == { [kind |-> "SELECT", returns |-> TRUE,  writes |-> 0],
             [kind |-> "INSERT", returns |-> FALSE, writes |-> 1] }

StatementOutcomes == {"ok", "error", "broken"}

CommitOutcomes == {"ok", "error", "broken"}

Threads == {1, 2}

Min(a, b) == IF a < b THEN a ELSE b

----------------------------------------------------------------------------
\* The connection object

NewHandle == [closed |-> 0, sock |-> "alive", intrans |-> FALSE,
              cursors |-> 0, pending |-> 0]

\* connection.close()
HandleClose(h) == [h EXCEPT !.closed = 1, !.sock = "dead", !.intrans = FALSE,
                            !.cursors = 0, !.pending = 0]

\* The server (or the network) drops the connection; the object is not told.
HandlePeerClose(h) == [h EXCEPT !.sock = "dead", !.intrans = FALSE, !.pending = 0]

\* An operation finds the connection broken.
HandleBroken(h) == [h EXCEPT !.closed = 2, !.sock = "dead", !.intrans = FALSE,
                             !.pending = 0]

----------------------------------------------------------------------------
\* The state a call works on, as one record

World == [handles |-> handles, conn |-> conn, is_reconnect |-> is_reconnect,
          reconnect_number |-> reconnect_number, table |-> table, log |-> log,
          openAttempts |-> openAttempts,
          raised |-> "none", opens |-> 0, sent |-> <<>>]

\* Variant: the check ignores the state of the handle.
_connection_is_closed_always(w) == TRUE

_connection_is_closed(w) ==
    w.conn = None \/ w.handles[w.conn].closed # 0

\* Variant: a failed open is retried once before the error is raised.
_connect_retry(w, ok) ==
    IF ok
    THEN [w EXCEPT !.handles = Append(@, NewHandle),
                   !.conn = Len(w.handles) + 1,
                   !.openAttempts = @ + 1, !.opens = @ + 1]
    ELSE [w EXCEPT !.openAttempts = @ + 2, !.opens = @ + 2,
                   !.raised = "OpenError"]

_connect(w, ok) ==
    IF ok
    THEN [w EXCEPT !.handles = Append(@, NewHandle),
                   !.conn = Len(w.handles) + 1,
                   !.openAttempts = @ + 1, !.opens = @ + 1]
    ELSE [w EXCEPT !.openAttempts = @ + 1, !.opens = @ + 1,
                   !.raised = "OpenError"]

\* Variant: the first connect is counted as a reconnect too.
_check_and_reconnect_counts_first(w, ok) ==
    IF _connection_is_closed(w)
    THEN _connect([w EXCEPT !.reconnect_number = @ + 1, !.is_reconnect = TRUE], ok)
    ELSE w

\* Variant: only a reconnect that succeeds is counted.
_check_and_reconnect_counts_success(w, ok) ==
    IF _connection_is_closed(w)
    THEN IF w.is_reconnect
         THEN _connect([w EXCEPT !.reconnect_number = IF ok THEN @ + 1 ELSE @], ok)
         ELSE _connect([w EXCEPT !.is_reconnect = TRUE], ok)
    ELSE w

_check_and_reconnect(w, ok) ==
    IF _connection_is_closed(w)
    THEN IF w.is_reconnect
         THEN _connect([w EXCEPT !.reconnect_number = @ + 1], ok)
         ELSE _connect([w EXCEPT !.is_reconnect = TRUE], ok)
    ELSE w

----------------------------------------------------------------------------
\* `with self.conn as conn:` and `with conn.cursor() as cursor:`

SetHandle(w, h) == [w EXCEPT !.handles[w.conn] = h]

\* conn.cursor()
cursor_open(w) ==
    SetHandle(w, [w.handles[w.conn] EXCEPT !.cursors = @ + 1])

\* cursor.execute(statement): psycopg2 begins a transaction with the first
\* statement.  The statement adds `writes` rows to the target table; `sent`
\* lists the row counts of the statements the call has submitted.
cursor_execute(w, writes, outcome) ==
    LET h == w.handles[w.conn] IN
    IF w.raised # "none" THEN w
    ELSE IF h.sock = "dead" \/ outcome = "broken"
    THEN [SetHandle(w, HandleBroken(h)) EXCEPT !.sent = Append(@, writes),
                                               !.raised = "ConnectionLost"]
    ELSE IF outcome = "error"
    THEN [SetHandle(w, [h EXCEPT !.intrans = TRUE]) EXCEPT !.sent = Append(@, writes),
                                                        !.raised = "StatementError"]
    ELSE [SetHandle(w, [h EXCEPT !.intrans = TRUE, !.pending = @ + writes])
              EXCEPT !.sent = Append(@, writes)]

\* [desc[0] for desc in cursor.description]: description is None for a
\* statement that returns no result set.
read_description(w, returns) ==
    IF w.raised = "none" /\ ~returns THEN [w EXCEPT !.raised = "TypeError"] ELSE w

\* cursor.__exit__: the cursor is closed on every exit path.
cursor_exit(w) ==
    SetHandle(w, [w.handles[w.conn] EXCEPT !.cursors = @ - 1])

\* Variant: the block's exit commits but never rolls back.
conn_exit_no_rollback(w, outcome, applied) ==
    LET h == w.handles[w.conn] IN
    IF w.raised = "none"
    THEN IF ~h.intrans THEN w
         ELSE IF outcome = "ok"
         THEN [SetHandle(w, [h EXCEPT !.intrans = FALSE, !.pending = 0])
                   EXCEPT !.table = @ + h.pending]
         ELSE IF outcome = "error"
         THEN [SetHandle(w, [h EXCEPT !.intrans = FALSE, !.pending = 0])
                   EXCEPT !.raised = "CommitError"]
         ELSE [SetHandle(w, HandleBroken(h))
                   EXCEPT !.table = @ + (IF applied THEN h.pending ELSE 0),
                          !.raised = "CommitLost"]
    ELSE w

\* Variant: the block's exit commits what was done before the error
\* (a commit placed in a finally clause).
conn_exit_commit_always(w, outcome, applied) ==
    LET h == w.handles[w.conn] IN
    IF w.raised = "none"
    THEN IF ~h.intrans THEN w
         ELSE IF outcome = "ok"
         THEN [SetHandle(w, [h EXCEPT !.intrans = FALSE, !.pending = 0])
                   EXCEPT !.table = @ + h.pending]
         ELSE IF outcome = "error"
         THEN [SetHandle(w, [h EXCEPT !.intrans = FALSE, !.pending = 0])
                   EXCEPT !.raised = "CommitError"]
         ELSE [SetHandle(w, HandleBroken(h))
                   EXCEPT !.table = @ + (IF applied THEN h.pending ELSE 0),
                          !.raised = "CommitLost"]
    ELSE IF h.closed # 0 THEN w
         ELSE [SetHandle(w, [h EXCEPT !.intrans = FALSE, !.pending = 0])
                   EXCEPT !.table = @ + h.pending]

\* connection.__exit__: commit when the block completed, rollback when it
\* raised.  A commit can be refused by the server (the transaction is then
\* rolled back) or lose the connection (the server may or may not have
\* applied it).  Neither sends anything when no transaction is open or the
\* connection is already known to be broken.
conn_exit(w, outcome, applied) ==
    LET h == w.handles[w.conn] IN
    IF w.raised = "none"
    THEN IF ~h.intrans THEN w
         ELSE IF outcome = "ok"
         THEN [SetHandle(w, [h EXCEPT !.intrans = FALSE, !.pending = 0])
                   EXCEPT !.table = @ + h.pending]
         ELSE IF outcome = "error"
         THEN [SetHandle(w, [h EXCEPT !.intrans = FALSE, !.pending = 0])
                   EXCEPT !.raised = "CommitError"]
         ELSE [SetHandle(w, HandleBroken(h))
                   EXCEPT !.table = @ + (IF applied THEN h.pending ELSE 0),
                          !.raised = "CommitLost"]
    ELSE IF h.closed # 0 THEN w
         ELSE SetHandle(w, [h EXCEPT !.intrans = FALSE, !.pending = 0])

----------------------------------------------------------------------------
\* The public operations, as functions of the state and of what the
\* environment does during the call

select_with_columns(w, query, openOk, outcome, commitOutcome, applied) ==
    LET w1 == _check_and_reconnect(w, openOk) IN
    IF w1.raised # "none" THEN w1
    ELSE conn_exit(
           cursor_exit(
             read_description(
               cursor_execute(cursor_open(w1), query.writes, outcome),
               query.returns)),
           commitOutcome, applied)

select(w, query, openOk, outcome, commitOutcome, applied) ==
    select_with_columns(w, query, openOk, outcome, commitOutcome, applied)

\* The two with-blocks of execute().
execute_block(w, query, outcome, commitOutcome, applied) ==
    conn_exit(
      cursor_exit(cursor_execute(cursor_open(w), query.writes, outcome)),
      commitOutcome, applied)

execute(w, query, openOk, outcome, commitOutcome, applied) ==
    LET w1 == _check_and_reconnect(w, openOk) IN
    IF w1.raised # "none" THEN w1
    ELSE execute_block(w1, query, outcome, commitOutcome, applied)

\* list(df.columns), [list(row) for row in df.values]
_split_to_rows_columns(df) == [columns |-> df.columns, rows |-> df.nrows]

\* Variant: all the rows go into one statement.
Paginate_single(n, size) == IF n = 0 THEN <<>> ELSE <<n>>

\* psycopg2.extras._paginate: the sizes of the pages n rows are cut into.
RECURSIVE Paginate(_, _)
Paginate(n, size) ==
    IF n = 0 THEN <<>>
    ELSE <<Min(n, size)>> \o Paginate(n - Min(n, size), size)

\* execute_values(cursor, query, rows, page_size): one cursor.execute per
\* page.  Page number failAt (0: none) is the one the environment makes
\* fail, with outcome failKind; a page naming a column the table does not
\* have is refused by the server.
RECURSIVE ExecPages(_, _, _, _, _, _)
ExecPages(w, pages, i, columns, failAt, failKind) ==
    IF i > Len(pages) \/ w.raised # "none" THEN w
    ELSE ExecPages(
           cursor_execute(w, pages[i],
              IF i = failAt THEN failKind
              ELSE IF columns = "mismatch" THEN "error" ELSE "ok"),
           pages, i + 1, columns, failAt, failKind)

execute_values(w, columns, nrows, size, failAt, failKind) ==
    ExecPages(w, Paginate(nrows, size), 1, columns, failAt, failKind)

\* The two logger.warning calls of insert_dataframe.
log_insert(w, table_name, nrows) ==
    IF w.raised # "none" THEN w
    ELSE [w EXCEPT !.log = @ \o << [line |-> "inserted",
                                    table |-> upper(table_name),
                                    rows |-> nrows],
                                   [line |-> "finished", table |-> "",
                                    rows |-> 0] >>]

insert_dataframe(w, df, table_name, openOk, failAt, failKind, commitOutcome, applied) ==
    LET w1 == _check_and_reconnect(w, openOk)
        split == _split_to_rows_columns(df)
    IN
    IF w1.raised # "none" THEN w1
    ELSE conn_exit(
           cursor_exit(
             log_insert(
               execute_values(cursor_open(w1), split.columns, split.rows,
                              page_size, failAt, failKind),
               table_name, split.rows)),
           commitOutcome, applied)

----------------------------------------------------------------------------
\* Sequential use: one caller, one operation at a time

NoCall == [op |-> "none", result |-> "none", opens |-> 0, sent |-> <<>>,
           rows |-> 0, tableName |-> "", tableBefore |-> 0, logBefore |-> 0,
           connBefore |-> None, reportedClosedBefore |-> TRUE,
           lostBefore |-> FALSE, flagBefore |-> FALSE, numberBefore |-> 0]

Init ==
    /\ handles = <<>>
    /\ conn = None
    /\ is_reconnect = FALSE
    /\ reconnect_number = 0
    /\ table = 0
    /\ log = <<>>
    /\ openAttempts = 0
    /\ opsDone = 0
    /\ lastCall = NoCall
    /\ deleted = FALSE
    /\ pc = [t \in Threads |-> "idle"]
    /\ tmp = [t \in Threads |-> 0]
    /\ ret = [t \in Threads |-> None]

\* The connection is gone, whether or not the object knows it.
ConnLost ==
    /\ conn # None
    /\ (handles[conn].closed # 0 \/ handles[conn].sock = "dead")

\* An operation named op, asked to add nrows rows, took the state to w and
\* then returned or raised.
Finish(op, w, nrows, table_name) ==
    /\ ~deleted
    /\ opsDone < MaxOps
    /\ w.openAttempts <= MaxOpens
    /\ handles' = w.handles
    /\ conn' = w.conn
    /\ is_reconnect' = w.is_reconnect
    /\ reconnect_number' = w.reconnect_number
    /\ table' = w.table
    /\ log' = w.log
    /\ openAttempts' = w.openAttempts
    /\ opsDone' = opsDone + 1
    /\ lastCall' = [op |-> op, result |-> w.raised, opens |-> w.opens,
                    sent |-> w.sent, rows |-> nrows, tableName |-> table_name,
                    tableBefore |-> table, logBefore |-> Len(log),
                    connBefore |-> conn,
                    reportedClosedBefore |-> _connection_is_closed(World),
                    lostBefore |-> ConnLost,
                    flagBefore |-> is_reconnect,
                    numberBefore |-> reconnect_number]
    /\ UNCHANGED <<deleted, pc, tmp, ret>>

\* What the environment does during a call: whether an open succeeds, how
\* the statement ends, how the commit ends and, when the connection is lost
\* during the commit, whether the server applied it.  Choices that cannot
\* influence the call are not enumerated twice.
Envs ==
    { e \in [openOk : BOOLEAN, out : StatementOutcomes,
             cout : CommitOutcomes, applied : BOOLEAN] :
        /\ (e.applied => e.cout = "broken")
        /\ (e.out # "ok" => e.cout = "ok") }

\* For a bulk insert: the page that fails (0: none) and how.
InsertEnvs(npages) ==
    { e \in [openOk : BOOLEAN, failAt : 0..npages, failKind : {"error", "broken"},
             cout : CommitOutcomes, applied : BOOLEAN] :
        /\ (e.applied => e.cout = "broken")
        /\ (e.failAt # 0 => e.cout = "ok")
        /\ (e.failAt = 0 => e.failKind = "error") }

Select ==
    \E q \in Queries, e \in Envs :
        Finish("select",
               select(World, q, e.openOk, e.out, e.cout, e.applied),
               q.writes, "")

SelectWithColumns ==
    \E q \in Queries, e \in Envs :
        Finish("select_with_columns",
               select_with_columns(World, q, e.openOk, e.out, e.cout, e.applied),
               q.writes, "")

Execute ==
    \E q \in Queries, e \in Envs :
        Finish("execute",
               execute(World, q, e.openOk, e.out, e.cout, e.applied),
               q.writes, "")

InsertDataframe ==
    \E df \in DataFrames, name \in TableNames :
      \E e \in InsertEnvs(Len(Paginate(df.nrows, page_size))) :
        Finish("insert_dataframe",
               insert_dataframe(World, df, name, e.openOk, e.failAt, e.failKind,
                                e.cout, e.applied),
               df.nrows, name)

\* The caller closes the connection object itself (self.conn.close()).
LocalClose ==
    /\ ~deleted
    /\ conn # None
    /\ handles[conn].closed = 0
    /\ handles' = [handles EXCEPT ![conn] = HandleClose(@)]
    /\ UNCHANGED <<conn, is_reconnect, reconnect_number, table, log,
                   openAttempts, opsDone, lastCall, deleted, pc, tmp, ret>>

\* The server terminates the session, or the network drops it.
PeerClose ==
    /\ ~deleted
    /\ conn # None
    /\ handles[conn].sock = "alive"
    /\ handles' = [handles EXCEPT ![conn] = HandlePeerClose(@)]
    /\ UNCHANGED <<conn, is_reconnect, reconnect_number, table, log,
                   openAttempts, opsDone, lastCall, deleted, pc, tmp, ret>>

\* __del__
Del ==
    /\ ~deleted
    /\ deleted' = TRUE
    /\ handles' = IF _connection_is_closed(World) THEN handles
                  ELSE [handles EXCEPT ![conn] = HandleClose(@)]
    /\ UNCHANGED <<conn, is_reconnect, reconnect_number, table, log,
                   openAttempts, opsDone, lastCall, pc, tmp, ret>>

Next ==
    \/ Select
    \/ SelectWithColumns
    \/ Execute
    \/ InsertDataframe
    \/ LocalClose
    \/ PeerClose
    \/ Del

Spec == Init /\ [][Next]_vars

----------------------------------------------------------------------------
\* Two threads calling execute() on one instance with no lock.  Each step
\* is one access to the instance's attributes; the threads interleave
\* between steps.  The connections stay up (no closure, no lost connection),
\* so every open after the first is the work of the race alone.

Running == Cardinality({t \in Threads : pc[t] # "idle"})

\* execute() is entered.
T_Call(t) ==
    /\ pc[t] = "idle"
    /\ opsDone + Running < MaxOps
    /\ pc' = [pc EXCEPT ![t] = "check"]
    /\ UNCHANGED <<seqVars, tmp, ret>>

\* if self._connection_is_closed():
T_Check(t) ==
    /\ pc[t] = "check"
    /\ pc' = [pc EXCEPT ![t] = IF _connection_is_closed(World) THEN "test"
                                 ELSE "block"]
    /\ UNCHANGED <<seqVars, tmp, ret>>

\* if self.is_reconnect:
T_Test(t) ==
    /\ pc[t] = "test"
    /\ pc' = [pc EXCEPT ![t] = IF is_reconnect THEN "load" ELSE "set"]
    /\ UNCHANGED <<seqVars, tmp, ret>>

\* self.reconnect_number += 1, the read
T_Load(t) ==
    /\ pc[t] = "load"
    /\ tmp' = [tmp EXCEPT ![t] = reconnect_number]
    /\ pc' = [pc EXCEPT ![t] = "store"]
    /\ UNCHANGED <<seqVars, ret>>

\* self.reconnect_number += 1, the write
T_Store(t) ==
    /\ pc[t] = "store"
    /\ reconnect_number' = tmp[t] + 1
    /\ tmp' = [tmp EXCEPT ![t] = 0]
    /\ pc' = [pc EXCEPT ![t] = "connect"]
    /\ UNCHANGED <<handles, conn, is_reconnect, table, log, openAttempts,
                   opsDone, lastCall, deleted, ret>>

\* self.is_reconnect = True
T_Set(t) ==
    /\ pc[t] = "set"
    /\ is_reconnect' = TRUE
    /\ pc' = [pc EXCEPT ![t] = "connect"]
    /\ UNCHANGED <<handles, conn, reconnect_number, table, log, openAttempts,
                   opsDone, lastCall, deleted, tmp, ret>>

\* psycopg2.connect(...): returns a new connection, or raises and ends the call.
T_Connect(t) ==
    /\ pc[t] = "connect"
    /\ openAttempts < MaxOpens
    /\ openAttempts' = openAttempts + 1
    /\ \E ok \in BOOLEAN :
         IF ok
         THEN /\ handles' = Append(handles, NewHandle)
              /\ ret' = [ret EXCEPT ![t] = Len(handles) + 1]
              /\ pc' = [pc EXCEPT ![t] = "assign"]
              /\ UNCHANGED opsDone
         ELSE /\ pc' = [pc EXCEPT ![t] = "idle"]
              /\ opsDone' = opsDone + 1
              /\ UNCHANGED <<handles, ret>>
    /\ UNCHANGED <<conn, is_reconnect, reconnect_number, table, log,
                   lastCall, deleted, tmp>>

\* Variant: the connection being replaced is closed first.
T_Assign_closing(t) ==
    /\ pc[t] = "assign"
    /\ conn' = ret[t]
    /\ handles' = IF conn = None THEN handles
                  ELSE [handles EXCEPT ![conn] = HandleClose(@)]
    /\ ret' = [ret EXCEPT ![t] = None]
    /\ pc' = [pc EXCEPT ![t] = "block"]
    /\ UNCHANGED <<is_reconnect, reconnect_number, table, log,
                   openAttempts, opsDone, lastCall, deleted, tmp>>

\* self.conn = <the connection returned>
T_Assign(t) ==
    /\ pc[t] = "assign"
    /\ conn' = ret[t]
    /\ ret' = [ret EXCEPT ![t] = None]
    /\ pc' = [pc EXCEPT ![t] = "block"]
    /\ UNCHANGED <<handles, is_reconnect, reconnect_number, table, log,
                   openAttempts, opsDone, lastCall, deleted, tmp>>

\* with self.conn as conn: with conn.cursor() as cursor: cursor.execute(query)
T_Block(t) ==
    /\ pc[t] = "block"
    /\ \E q \in Queries, out \in {"ok", "error"}, cout \in {"ok", "error"} :
         LET w == execute_block(World, q, out, cout, FALSE) IN
         /\ handles' = w.handles
         /\ table' = w.table
    /\ pc' = [pc EXCEPT ![t] = "idle"]
    /\ opsDone' = opsDone + 1
    /\ UNCHANGED <<conn, is_reconnect, reconnect_number, log, openAttempts,
                   lastCall, deleted, tmp, ret>>

NextConc ==
    \E t \in Threads :
        \/ T_Call(t)
        \/ T_Check(t)
        \/ T_Test(t)
        \/ T_Load(t)
        \/ T_Store(t)
        \/ T_Set(t)
        \/ T_Connect(t)
        \/ T_Assign(t)
        \/ T_Block(t)

SpecConc == Init /\ [][NextConc]_vars

----------------------------------------------------------------------------
\* Properties

Called == lastCall.op # "none"

\* Connection objects that have not been closed or found broken.
OpenHandles == {i \in DOMAIN handles : handles[i].closed = 0}

\* The lines the most recent operation wrote to the log.
NewLines == SubSeq(log, lastCall.logBefore + 1, Len(log))

InsertedLines == {i \in DOMAIN NewLines : NewLines[i].line = "inserted"}

CeilDiv(n, d) == (n + d - 1) \div d

\* C1: every operation runs in a transaction of its own: once it has
\* returned or raised, no connection has a transaction or a cursor open;
\* a call that returned normally has committed its rows, and a call whose
\* statement raised has left the table as it was.
C1_TransactionScopedToCall ==
    /\ \A i \in DOMAIN handles :
          /\ ~handles[i].intrans
          /\ handles[i].cursors = 0
          /\ handles[i].pending = 0
    /\ (Called /\ lastCall.result = "none")
          => table = lastCall.tableBefore + lastCall.rows
    /\ (Called /\ lastCall.result \in {"StatementError", "TypeError", "ConnectionLost"})
          => table = lastCall.tableBefore

\* A statement was refused by the server and the call rolled back on a
\* connection that stays open.
C1_Witness ==
    /\ lastCall.op = "execute"
    /\ lastCall.result = "StatementError"
    /\ Len(lastCall.sent) = 1
    /\ conn # None
    /\ handles[conn].closed = 0

\* C2: a bulk insert whose batch fails on any page raises and leaves the
\* target table with the rows it had before the call.
C2_BulkInsertAllOrNothing ==
    (lastCall.op = "insert_dataframe"
       /\ lastCall.result \in {"StatementError", "ConnectionLost"})
      => /\ table = lastCall.tableBefore
         /\ \A i \in DOMAIN handles : handles[i].pending = 0

\* A bulk insert failed on its third page, after two pages were submitted.
C2_Witness ==
    /\ lastCall.op = "insert_dataframe"
    /\ lastCall.result = "StatementError"
    /\ Len(lastCall.sent) = 3
    /\ table = lastCall.tableBefore

\* C3: under sequential use at most one connection object is open, an
\* operation opens one only when the current one is absent or reports
\* closed, and an operation that finds it open makes no open attempt and
\* leaves conn, is_reconnect and reconnect_number as they were.
C3_SingleHandle ==
    /\ Cardinality(OpenHandles) <= 1
    /\ (Called /\ lastCall.opens > 0) => lastCall.reportedClosedBefore
    /\ (Called /\ ~lastCall.reportedClosedBefore)
          => /\ lastCall.opens = 0
             /\ conn = lastCall.connBefore
             /\ is_reconnect = lastCall.flagBefore
             /\ reconnect_number = lastCall.numberBefore

\* After a reconnect, an operation ran on the open second connection.
C3_Witness ==
    /\ Len(handles) = 2
    /\ Called
    /\ ~lastCall.reportedClosedBefore
    /\ lastCall.connBefore = 2
    /\ OpenHandles = {2}

\* C4: the first operation on a fresh client makes exactly one open
\* attempt, sets is_reconnect and leaves reconnect_number at 0.
C4_FirstCall ==
    opsDone = 1
      => /\ lastCall.opens = 1
         /\ openAttempts = 1
         /\ is_reconnect
         /\ reconnect_number = 0

\* The first operation connected and returned normally.
C4_Witness ==
    /\ opsDone = 1
    /\ lastCall.result = "none"
    /\ conn = 1
    /\ handles[conn].closed = 0

\* C5: an operation that starts after the connection was closed, by the
\* peer or locally, makes exactly one open attempt and adds exactly 1 to
\* reconnect_number.
C5_ReconnectOnNextOperation ==
    (Called /\ lastCall.lostBefore)
      => /\ lastCall.opens = 1
         /\ reconnect_number = lastCall.numberBefore + 1

\* C6: when the open fails, the call raises after that one attempt without
\* submitting a statement, and leaves the handle absent or closed, so that
\* the next operation makes an open attempt of its own.
C6_FailedOpenPropagates ==
    /\ [](lastCall.result = "OpenError"
            => /\ lastCall.opens = 1
               /\ lastCall.sent = <<>>
               /\ conn = lastCall.connBefore
               /\ table = lastCall.tableBefore
               /\ _connection_is_closed(World))
    /\ [][(lastCall.result = "OpenError" /\ opsDone' = opsDone + 1)
            => lastCall'.opens = 1]_vars

\* Two operations in a row failed to open, each with its own attempt.
C6_Witness ==
    /\ lastCall.result = "OpenError"
    /\ opsDone = 2
    /\ openAttempts = 2
    /\ handles = <<>>

\* C7: only a bulk insert that was committed writes to the log: a bulk
\* insert that raises writes nothing, and the other operations never do.
C7_LogOnlyCommittedInserts ==
    /\ (Called /\ lastCall.op # "insert_dataframe") => Len(log) = lastCall.logBefore
    /\ (lastCall.op = "insert_dataframe" /\ lastCall.result # "none")
          => Len(log) = lastCall.logBefore

\* C8: a bulk insert of N rows that returns has submitted ceil(N / 50000)
\* pages of at most 50000 rows, has added exactly N rows to the table, and
\* has written exactly one log line naming the table and N.
C8_BulkInsertPages ==
    (lastCall.op = "insert_dataframe" /\ lastCall.result = "none")
      => /\ Len(lastCall.sent) = CeilDiv(lastCall.rows, page_size)
         /\ \A i \in DOMAIN lastCall.sent : lastCall.sent[i] <= page_size
         /\ table = lastCall.tableBefore + lastCall.rows
         /\ Cardinality(InsertedLines) = 1
         /\ \A i \in InsertedLines :
               /\ NewLines[i].table = upper(lastCall.tableName)
               /\ NewLines[i].rows = lastCall.rows

\* A bulk insert of the largest frame returned after three pages.
C8_Witness ==
    /\ lastCall.op = "insert_dataframe"
    /\ lastCall.result = "none"
    /\ lastCall.rows = MaxRows
    /\ Len(lastCall.sent) = 3
    /\ table = lastCall.tableBefore + MaxRows

\* Connections a thread still holds in a local, and those nobody refers to.
Held == {conn} \cup {ret[t] : t \in Threads}

Leaked == OpenHandles \ Held

\* C9: with two unsynchronised threads, every connection opened stays
\* open (the client closes none of them) and, once the opened ones have
\* been stored, conn refers to one of them and all the others are open
\* and unreachable.
C9_RaceLeaksHandles ==
    /\ \A i \in DOMAIN handles :
          handles[i].closed = 0 /\ handles[i].sock = "alive"
    /\ (\A t \in Threads : pc[t] # "assign")
          => /\ (handles # <<>> => conn \in OpenHandles)
             /\ Cardinality(Leaked) = IF handles = <<>> THEN 0
                                      ELSE Len(handles) - 1

\* Both threads made their first call at once: two connections are open,
\* one of them unreachable, and a reconnect was counted though no
\* connection was ever closed.
C9_Witness ==
    /\ opsDone = 2
    /\ \A t \in Threads : pc[t] = "idle"
    /\ Len(handles) = 2
    /\ Cardinality(OpenHandles) = 2
    /\ Cardinality(Leaked) = 1
    /\ reconnect_number = 1

\* C10: is_reconnect holds exactly when an open was attempted,
\* reconnect_number is the number of open attempts (failed ones included)
\* less one, a handle implies is_reconnect, and reconnect_number never
\* decreases.
C10_ReconnectBookkeeping ==
    /\ [](/\ is_reconnect <=> openAttempts >= 1
          /\ reconnect_number = IF openAttempts = 0 THEN 0 ELSE openAttempts - 1
          /\ conn # None => is_reconnect)
    /\ [][reconnect_number' >= reconnect_number]_vars

\* Three open attempts were made, one of which failed.
C10_Witness ==
    /\ openAttempts = 3
    /\ reconnect_number = 2
    /\ Len(handles) = 2

====
